---------------------------- MODULE Spec2Model ----------------------------
(***************************************************************************)
(* A model of slack_hubspot_report.py: the label normalizer, the pipeline  *)
(* resolver, the paginated stage counter, the metrics aggregator and the   *)
(* orchestrator (main).                                                    *)
(*                                                                         *)
(* Text is modelled as a sequence of characters; a character is a one-     *)
(* element name.  ASCII characters are named by themselves, the others by  *)
(* an ASCII name:                                                          *)
(*    "e^" "a~" "c," "i'" "a'" "u'"   U+00EA U+00E3 U+00E7 U+00ED U+00E1   *)
(*                                    U+00FA (and "E^" ... their capitals) *)
(*    "a_ord"     U+00AA feminine ordinal (a letter, category Lo)          *)
(*    "TIMES"     U+00D7 multiplication sign (inside the range U+00C0-FF)  *)
(*    "EN_DASH"   U+2013        "EM_DASH"  U+2014                          *)
(*    "CAMERA"    U+1F4F7 (an emoji)                                       *)
(*    "I_DOT"     U+0130 capital I with dot above                          *)
(*    "COMB_DOT"  U+0307 combining dot above (category Mn)                 *)
(*    "TAB"       U+0009                                                   *)
(* Python's None is the value None below; "" is the empty str.             *)
(***************************************************************************)
EXTENDS Integers, Sequences, FiniteSets, TLC

VARIABLES
    env,              \* os.environ as main reads it
    pc,               \* position of main
    status,           \* how the process ended: "running", "ok", or the exception
    pipelines,        \* the "results" array hs_get returned to the resolver
    pipeline_id,      \* get_pipeline_and_stages: id of the chosen pipeline
    stage_map,        \* get_pipeline_and_stages: {raw label: stage id}
    norm_stage_map,   \* fetch_ticket_metrics: {normalized label: stage id}
    i,                \* fetch_ticket_metrics: index of the label being processed
    metrics,          \* fetch_ticket_metrics: its local metrics dict
    total,            \* count_tickets_in_stage: running total
    after,            \* count_tickets_in_stage: cursor for the next request
    stage_id,         \* count_tickets_in_stage: its stage_id argument
    pages,            \* the search responses the CRM still holds for this count
    requests,         \* the cursors count_tickets_in_stage sent, in order
    served,           \* the responses count_tickets_in_stage received, in order
    ticket_metrics,   \* main: ticket_metrics
    merged,           \* main: metrics (the merged map)
    log,              \* every external effect of the run, in order
    txt,              \* normalizer harness: the input label
    variant,          \* normalizer harness: a cosmetic variant of txt
    edit,             \* normalizer harness: how variant differs from txt
    out,              \* normalizer harness: normalize_label(txt)
    out_variant,      \* normalizer harness: normalize_label(variant)
    out_twice,        \* normalizer harness: normalize_label(normalize_label(txt))
    npc               \* normalizer harness: position

vars == << env, pc, status, pipelines, pipeline_id, stage_map, norm_stage_map,
           i, metrics, total, after, stage_id, pages, requests, served,
           ticket_metrics, merged, log,
           txt, variant, edit, out, out_variant, out_twice, npc >>

mainVars == << env, pc, status, pipelines, pipeline_id, stage_map, norm_stage_map,
               i, metrics, total, after, stage_id, pages, requests, served,
               ticket_metrics, merged, log >>

normVars == << txt, variant, edit, out, out_variant, out_twice, npc >>

None == "None"

(***************************************************************************)
(* Bounds of the model.                                                    *)
(***************************************************************************)
MaxNormLen == 3        \* longest generated normalizer input
MaxPages == 3          \* longest scripted sequence of search responses
MaxPipelines == 2      \* most pipelines in one pipelines response
MaxExtraStages == 2    \* most variant stages added to the small pipeline

(***************************************************************************)
(* Characters.                                                             *)
(***************************************************************************)
UPPER == << "A", "B", "C", "D", "E", "F", "G", "H", "I", "J", "K", "L", "M",
            "N", "O", "P", "Q", "R", "S", "T", "U", "V", "W", "X", "Y", "Z",
            "E^", "A~", "C,", "I'", "A'", "U'" >>

LOWER == << "a", "b", "c", "d", "e", "f", "g", "h", "i", "j", "k", "l", "m",
            "n", "o", "p", "q", "r", "s", "t", "u", "v", "w", "x", "y", "z",
            "e^", "a~", "c,", "i'", "a'", "u'" >>

Range(s) == { s[k] : k \in DOMAIN s }

Digits == { "0", "1", "2", "3", "4", "5", "6", "7", "8", "9" }

\* \w of a str pattern: the alphanumerics of Unicode and the underscore
WordChars == Range(UPPER) \cup Range(LOWER) \cup Digits \cup { "_", "a_ord", "I_DOT" }

\* \s of a str pattern, which is also what str.strip() trims
SpaceChars == { " ", "TAB" }

\* the range U+00C0 - U+00FF of the pattern
LatinRange == { "E^", "A~", "C,", "I'", "A'", "U'",
                "e^", "a~", "c,", "i'", "a'", "u'", "TIMES" }

\* str.lower() of one character; U+0130 lowers to two characters
LowerChar(c) ==
    IF c = "I_DOT" THEN << "i", "COMB_DOT" >>
    ELSE IF c \in Range(UPPER)
         THEN << LOWER[CHOOSE k \in DOMAIN UPPER : UPPER[k] = c] >>
         ELSE << c >>

RECURSIVE LowerStr(_)
\* str.lower()
LowerStr(s) ==
    IF s = << >> THEN << >> ELSE LowerChar(Head(s)) \o LowerStr(Tail(s))

RECURSIVE LStrip(_)
LStrip(s) ==
    IF s # << >> /\ Head(s) \in SpaceChars THEN LStrip(Tail(s)) ELSE s

RECURSIVE RStrip(_)
RStrip(s) ==
    IF s # << >> /\ s[Len(s)] \in SpaceChars
    THEN RStrip(SubSeq(s, 1, Len(s) - 1))
    ELSE s

\* str.strip()
Strip(s) == RStrip(LStrip(s))

\* txt.replace(EN_DASH, "-").replace(EM_DASH, "-")
ReplaceDashesOnlyEn(s) ==
    [ k \in DOMAIN s |-> IF s[k] = "EN_DASH" THEN "-" ELSE s[k] ]

ReplaceDashes(s) ==
    [ k \in DOMAIN s |-> IF s[k] \in { "EN_DASH", "EM_DASH" } THEN "-" ELSE s[k] ]

\* the characters re.sub(r"[^\w\s<U+00C0>-<U+00FF>-]", "", txt) keeps
Kept(c) == c \in WordChars \/ c \in SpaceChars \/ c \in LatinRange \/ c = "-"

RemoveSymbols(s) == SelectSeq(s, Kept)

normalize_label(s) == LowerStr(Strip(RemoveSymbols(ReplaceDashes(s))))


(***************************************************************************)
(* Dictionaries.  A Python dict is a sequence of <<key, value>> pairs with *)
(* distinct keys, in insertion order; writing an existing key replaces its *)
(* value in place.                                                         *)
(***************************************************************************)
DictKeys(d) == { d[k][1] : k \in DOMAIN d }

DictHas(d, key) == key \in DictKeys(d)

\* d.get(key): the value, or None
DictGet(d, key) ==
    IF DictHas(d, key)
    THEN d[CHOOSE k \in DOMAIN d : d[k][1] = key][2]
    ELSE None

\* d[key] = value
DictSet(d, key, value) ==
    IF DictHas(d, key)
    THEN [ k \in DOMAIN d |-> IF d[k][1] = key THEN << key, value >> ELSE d[k] ]
    ELSE Append(d, << key, value >>)

RECURSIVE DictUpdate(_, _)
\* d.update(other)
DictUpdate(d, other) ==
    IF other = << >> THEN d
    ELSE DictUpdate(DictSet(d, other[1][1], other[1][2]), Tail(other))

\* Python truthiness of an optional str (an identifier, a token, a cursor)
Truthy(v) == v # None /\ v # ""

\* Python truthiness of a text
TruthyText(s) == s # << >>


RECURSIVE SeqsUpTo(_, _)
\* the sequences over a set, of length at most n
SeqsUpTo(alphabet, n) ==
    IF n = 0 THEN { << >> }
    ELSE LET shorter == SeqsUpTo(alphabet, n - 1)
         IN  shorter \cup { Append(s, c) : s \in shorter, c \in alphabet }

(***************************************************************************)
(* Configuration of the program.                                           *)
(***************************************************************************)
STAGE_LABELS ==
    << <<"N", "o", "v", "o">>,
       <<"C", "o", "l", "e", "t", "a", "r", " ", "P", "e", "n", "d", "e^", "n", "c", "i", "a", "s">>,
       <<"E", "m", " ", "t", "r", "a", "t", "a", "t", "i", "v", "a">>,
       <<"R", "e", "t", "o", "r", "n", "o">>,
       <<"2", "a_ord", " ", "T", "e", "n", "t", "a", "t", "i", "v", "a">>,
       <<"3", "a_ord", " ", "T", "e", "n", "t", "a", "t", "i", "v", "a">>,
       <<"S", "o", "l", "i", "c", "i", "t", "a", " ", "I", "m", "a", "g", "e", "m">>,
       <<"F", "i", "n", "a", "n", "c", "e", "i", "r", "o">>,
       <<"P", "r", "o", "a", "t", "i", "v", "o", "s", " ", "-", " ", "C", "G", "S">>,
       <<"E", "r", "r", "o", "s", " ", "a", "u", "t", "o", "m", "a", "c,", "a~", "o">>,
       <<"C", "e", "n", "t", "r", "o", " ", "d", "e", " ", "G", "e", "s", "t", "a~", "o", " ", "d", "e", " ", "S", "e", "r", "v", "i", "c,", "o">>,
       <<"O", "c", "o", "r", "r", "e^", "n", "c", "i", "a">>,
       <<"L", "o", "g", "i'", "s", "t", "i", "c", "a">>,
       <<"R", "e", "a", "d", "e", "q", "u", "a", "c,", "a~", "o">>,
       <<"C", "o", "n", "c", "l", "u", "i'", "d", "o">> >>

CONV_KEYS ==
    << <<"T", "u", "d", "o", " ", "a", "b", "e", "r", "t", "o", " ", "e", "m", " ", "c", "o", "n", "v", "e", "r", "s", "a", "s">>,
       <<"N", "a~", "o", " ", "a", "t", "r", "i", "b", "u", "i'", "d", "o">>,
       <<"U'", "l", "t", "i", "m", "a", " ", "R", "e", "s", "p", "o", "s", "t", "a", " ", "(", "c", "l", "i", "e", "n", "t", "e", ")">>,
       <<"T", "e", "m", "p", "o", " ", "m", "a'", "x", ".", " ", "u'", "l", "t", "i", "m", "a", " ", "r", "e", "s", "p", "o", "s", "t", "a", " ", "(", "m", "i", "n", ")">> >>

\* main: the default of HUBSPOT_PIPELINE_NAME
DefaultPipelineName ==
    << "E", "x", "p", "e", "r", "i", "e^", "n", "c", "i", "a", " ", "d", "o", " ",
       "C", "l", "i", "e", "n", "t", "e" >>

\* count_tickets_in_stage: "limit" of every search request
PageLimit == 100

(***************************************************************************)
(* The environment.  A variable is unset, or set to a value;               *)
(* os.getenv(name, default) gives the default only when it is unset.       *)
(***************************************************************************)
EnvUnset(empty) == [ set |-> FALSE, val |-> empty ]

EnvSet(v) == [ set |-> TRUE, val |-> v ]

Getenv(e, default) == IF e.set THEN e.val ELSE default

PaddedUpperName ==
    << " ", " ", "E", "X", "P", "E", "R", "I", "E^", "N", "C", "I", "A", " ",
       "d", "o", " ", "c", "l", "i", "e", "n", "t", "e", " " >>

TokenValues == { EnvUnset(""), EnvSet(""), EnvSet("secret") }

Envs ==
    [ SLACK_BOT_TOKEN : TokenValues,
      SLACK_CHANNEL_ID : TokenValues,
      HUBSPOT_TOKEN : TokenValues,
      HUBSPOT_PIPELINE_NAME : { EnvUnset(<< >>), EnvSet(<< >>), EnvSet(PaddedUpperName) },
      HUBSPOT_PIPELINE_ID : { EnvUnset(""), EnvSet(""), EnvSet("P2"), EnvSet("P9") },
      DRY_RUN : { EnvUnset(""), EnvSet("1"), EnvSet("true") } ]

(***************************************************************************)
(* The CRM: the pipelines it may return and the tickets it holds.          *)
(***************************************************************************)
FullStages ==
    << << << "N", "o", "v", "o" >>, "S1" >>,
       << << "C", "o", "l", "e", "t", "a", "r", " ", "P", "e", "n", "d", "e^", "n", "c", "i", "a", "s" >>, "S2" >>,
       << << "E", "M", " ", "T", "R", "A", "T", "A", "T", "I", "V", "A" >>, "S3" >>,
       << << "R", "e", "t", "o", "r", "n", "o" >>, "S4" >>,
       << << "2", "a_ord", " ", "T", "e", "n", "t", "a", "t", "i", "v", "a" >>, "S5" >>,
       << << "3", "a_ord", " ", "T", "e", "n", "t", "a", "t", "i", "v", "a" >>, "S6" >>,
       << << "S", "o", "l", "i", "c", "i", "t", "a", " ", "I", "m", "a", "g", "e", "m", " ", "CAMERA" >>, "S7" >>,
       << << "F", "i", "n", "a", "n", "c", "e", "i", "r", "o" >>, "S8" >>,
       << << "P", "r", "o", "a", "t", "i", "v", "o", "s", " ", "EN_DASH", " ", "C", "G", "S" >>, "S9" >>,
       << << "E", "r", "r", "o", "s", " ", "a", "u", "t", "o", "m", "a", "c,", "a~", "o" >>, "S10" >>,
       << << "C", "e", "n", "t", "r", "o", " ", "d", "e", " ", "G", "e", "s", "t", "a~", "o", " ", "d", "e", " ", "S", "e", "r", "v", "i", "c,", "o" >>, "S11" >>,
       << << "O", "c", "o", "r", "r", "e^", "n", "c", "i", "a" >>, "S12" >>,
       << << " ", "L", "o", "g", "i'", "s", "t", "i", "c", "a", " " >>, "S13" >>,
       << << "C", "o", "n", "c", "l", "u", "i'", "d", "o", "!" >>, "S15" >> >>

SmallStages ==
    << << << "N", "o", "v", "o" >>, "N1" >>,
       << << "C", "o", "n", "c", "l", "u", "i'", "d", "o" >>, "N2" >> >>

StageVariants ==
    { << << "s", "o", "l", "i", "c", "i", "t", "a", " ", " ", " ", "i", "m", "a", "g", "e", "m" >>, "X8" >>,
      << << "N", "o", "v", "o" >>, "" >>,
      << << "N", "O", "V", "O", " " >>, "X1" >> }

FullPipeline == [ id |-> "P1", label |-> DefaultPipelineName, stages |-> FullStages ]

SmallPipeline(extra) ==
    [ id |-> "P3",
      label |-> << " ", "e", "x", "p", "e", "r", "i", "e^", "n", "c", "i", "a", " ",
                   "d", "o", " ", "c", "l", "i", "e", "n", "t", "e" >>,
      stages |-> SmallStages \o extra ]

VendasPipeline ==
    [ id |-> "P2", label |-> << "V", "e", "n", "d", "a", "s" >>,
      stages |-> << << << "N", "o", "v", "o" >>, "V1" >> >> ]

CandidatePipelines ==
    { FullPipeline, VendasPipeline }
    \cup { SmallPipeline(extra) : extra \in SeqsUpTo(StageVariants, MaxExtraStages) }

RECURSIVE PipelineLists(_)
\* the "results" arrays: at most n pipelines, with distinct identifiers
PipelineLists(n) ==
    IF n = 0 THEN { << >> }
    ELSE LET shorter == PipelineLists(n - 1)
         IN  shorter \cup
             UNION { { Append(l, p) :
                         p \in { q \in CandidatePipelines :
                                   \A k \in DOMAIN l : l[k].id # q.id } } :
                     l \in shorter }

PipelineResponses == PipelineLists(MaxPipelines)

\* the number of tickets the CRM holds in each stage
TICKETS ==
    << << "S1", 3 >>, << "S2", 1 >>, << "S3", 0 >>, << "S4", 2 >>, << "S5", 5 >>,
       << "S6", 0 >>, << "S7", 0 >>, << "S8", 1 >>, << "S9", 0 >>, << "S10", 0 >>,
       << "S11", 2 >>, << "S12", 1 >>, << "S13", 0 >>, << "S15", 4 >>,
       << "N1", 237 >>, << "N2", 137 >>, << "V1", 100 >>,
       << "X8", 2 >>, << "X1", 1 >> >>

TicketsIn(sid) == IF DictHas(TICKETS, sid) THEN DictGet(TICKETS, sid) ELSE 0

CURSORS == << "100", "200", "300" >>

RECURSIVE PagesOf(_, _)
\* the search responses for n tickets, from page k on: pages of PageLimit results,
\* each but the last with the cursor of the next
PagesOf(n, k) ==
    IF n <= PageLimit
    THEN << [ n |-> n, after |-> None ] >>
    ELSE << [ n |-> PageLimit, after |-> CURSORS[k] ] >> \o PagesOf(n - PageLimit, k + 1)

ServerPages(sid) == PagesOf(TicketsIn(sid), 1)

(***************************************************************************)
(* The run of main.                                                        *)
(***************************************************************************)
Ev(op, arg) == [ op |-> op, arg |-> arg ]

NetworkOps == { "GET pipelines", "POST search", "upload" }

NoEdit == [ kind |-> "none", pos |-> 0, ch |-> " " ]

NormIdle ==
    /\ txt = << >>
    /\ variant = << >>
    /\ edit = NoEdit
    /\ out = << >>
    /\ out_variant = << >>
    /\ out_twice = << >>
    /\ npc = "idle"

Init ==
    /\ env \in Envs
    /\ pc = "preflight"
    /\ status = "running"
    /\ pipelines = << >>
    /\ pipeline_id = None
    /\ stage_map = << >>
    /\ norm_stage_map = << >>
    /\ i = 0
    /\ metrics = << >>
    /\ total = 0
    /\ after = None
    /\ stage_id = None
    /\ pages = << >>
    /\ requests = << >>
    /\ served = << >>
    /\ ticket_metrics = << >>
    /\ merged = << >>
    /\ log = << >>
    /\ NormIdle

\* main, lines 323-330: the configuration main insists on
PreflightOk(e) ==
    /\ Truthy(Getenv(e.SLACK_BOT_TOKEN, ""))
    /\ Truthy(Getenv(e.SLACK_CHANNEL_ID, ""))
    /\ Truthy(Getenv(e.HUBSPOT_TOKEN, ""))

\* main, lines 323-332
Preflight ==
    /\ pc = "preflight"
    /\ IF PreflightOk(env)
       THEN /\ pc' = "resolve"
            /\ UNCHANGED status
       ELSE /\ pc' = "exit"
            /\ status' = "SystemExit"
    /\ UNCHANGED << env, pipelines, pipeline_id, stage_map, norm_stage_map, i,
                    metrics, total, after, stage_id, pages, requests, served,
                    ticket_metrics, merged, log >>
    /\ UNCHANGED normVars

\* the hints fetch_ticket_metrics hands to the resolver (lines 193-194, with
\* pipeline_name_default the value main read at line 332)
PipelineNameEnv == Getenv(env.HUBSPOT_PIPELINE_NAME, DefaultPipelineName)

PipelineIdEnv == Getenv(env.HUBSPOT_PIPELINE_ID, None)

Min(S) == CHOOSE x \in S : \A y \in S : x <= y

\* the past behaviour: an id hint that matches nothing falls back to the name
ChoosePipelineFallsBack(results, name, id) ==
    LET byId == { k \in DOMAIN results : results[k].id = id }
        wanted == LowerStr(Strip(name))
        byName == { k \in DOMAIN results :
                      LowerStr(Strip(results[k].label)) = wanted }
    IN  IF Truthy(id) /\ byId # { }
        THEN [ err |-> None, chosen |-> Min(byId) ]
        ELSE IF TruthyText(name)
             THEN IF byName # { }
                  THEN [ err |-> None, chosen |-> Min(byName) ]
                  ELSE [ err |-> "name not found", chosen |-> 0 ]
             ELSE [ err |-> "no hint", chosen |-> 0 ]

\* get_pipeline_and_stages, lines 114-134: which pipeline is chosen, or the error
ChoosePipeline(results, name, id) ==
    LET byId == { k \in DOMAIN results : results[k].id = id }
        wanted == LowerStr(Strip(name))
        byName == { k \in DOMAIN results :
                      LowerStr(Strip(results[k].label)) = wanted }
    IN  IF Truthy(id)
        THEN IF byId # { }
             THEN [ err |-> None, chosen |-> Min(byId) ]
             ELSE [ err |-> "id not found", chosen |-> 0 ]
        ELSE IF TruthyText(name)
             THEN IF byName # { }
                  THEN [ err |-> None, chosen |-> Min(byName) ]
                  ELSE [ err |-> "name not found", chosen |-> 0 ]
             ELSE [ err |-> "no hint", chosen |-> 0 ]

\* line 137: {st.get("label"): st.get("id") for st in chosen.get("stages", [])}
StageMapOf(p) == DictUpdate(<< >>, p.stages)

\* line 198: {normalize_label(k): v for k, v in stage_map.items()}
NormStageMapOf(sm) ==
    DictUpdate(<< >>, [ k \in DOMAIN sm |-> << normalize_label(sm[k][1]), sm[k][2] >> ])

\* a failure keeps the counts obtained before it
FallbackMetricsKeepsCounts ==
    DictUpdate([ k \in DOMAIN STAGE_LABELS |-> << STAGE_LABELS[k], 0 >> ], metrics)

\* main, line 339: {label: 0 for label in STAGE_LABELS}
FallbackMetrics ==
    DictUpdate(<< >>, [ k \in DOMAIN STAGE_LABELS |-> << STAGE_LABELS[k], 0 >> ])

\* main, lines 337-339: the handler of an exception raised by fetch_ticket_metrics
FetchRaises(cause, events) ==
    /\ ticket_metrics' = FallbackMetrics
    /\ log' = log \o events \o << Ev("fetch raised", cause), Ev("print failure", cause) >>
    /\ pc' = "merge"

\* fetch_ticket_metrics, lines 191-200, with get_pipeline_and_stages: the
\* pipelines request succeeds
GetPipelines ==
    /\ pc = "resolve"
    /\ \E results \in PipelineResponses :
        LET r == ChoosePipeline(results, PipelineNameEnv, PipelineIdEnv)
        IN  /\ pipelines' = results
            /\ IF r.err = None
               THEN /\ pipeline_id' = results[r.chosen].id
                    /\ stage_map' = StageMapOf(results[r.chosen])
                    /\ norm_stage_map' = NormStageMapOf(StageMapOf(results[r.chosen]))
                    /\ i' = 1
                    /\ metrics' = << >>
                    /\ log' = Append(log, Ev("GET pipelines", "ok"))
                    /\ pc' = "labels"
                    /\ UNCHANGED ticket_metrics
               ELSE /\ FetchRaises(r.err, << Ev("GET pipelines", "ok") >>)
                    /\ UNCHANGED << pipeline_id, stage_map, norm_stage_map, i, metrics >>
    /\ UNCHANGED << env, status, total, after, stage_id, pages, requests, served, merged >>
    /\ UNCHANGED normVars

\* hs_get raises (lines 90-94): the request fails or is answered with an error
GetPipelinesFails ==
    /\ pc = "resolve"
    /\ FetchRaises("HTTPError", << Ev("GET pipelines", "HTTPError") >>)
    /\ UNCHANGED << env, status, pipelines, pipeline_id, stage_map, norm_stage_map,
                    i, metrics, total, after, stage_id, pages, requests, served, merged >>
    /\ UNCHANGED normVars

\* fetch_ticket_metrics, lines 202-203: the stage id found for label k, or None
LookupStage(k) == DictGet(norm_stage_map, normalize_label(STAGE_LABELS[k]))

\* fetch_ticket_metrics, lines 204-208: no stage id for the label
LabelUnmatched ==
    /\ pc = "labels"
    /\ i <= Len(STAGE_LABELS)
    /\ ~Truthy(LookupStage(i))
    /\ log' = Append(log, Ev("warn", i))
    /\ metrics' = DictSet(metrics, STAGE_LABELS[i], 0)
    /\ i' = i + 1
    /\ UNCHANGED << env, pc, status, pipelines, pipeline_id, stage_map, norm_stage_map,
                    total, after, stage_id, pages, requests, served, ticket_metrics,
                    merged >>
    /\ UNCHANGED normVars

\* fetch_ticket_metrics, line 210, entering count_tickets_in_stage (lines 153-155)
LabelMatched ==
    /\ pc = "labels"
    /\ i <= Len(STAGE_LABELS)
    /\ Truthy(LookupStage(i))
    /\ stage_id' = LookupStage(i)
    /\ total' = 0
    /\ after' = None
    /\ requests' = << >>
    /\ served' = << >>
    /\ pages' = ServerPages(LookupStage(i))
    /\ log' = Append(log, Ev("count", [ label |-> i, stage |-> LookupStage(i) ]))
    /\ pc' = "search"
    /\ UNCHANGED << env, status, pipelines, pipeline_id, stage_map, norm_stage_map,
                    i, metrics, ticket_metrics, merged >>
    /\ UNCHANGED normVars

\* fetch_ticket_metrics, line 212, and main, line 336
FetchReturns ==
    /\ pc = "labels"
    /\ i > Len(STAGE_LABELS)
    /\ ticket_metrics' = metrics
    /\ pc' = "merge"
    /\ UNCHANGED << env, status, pipelines, pipeline_id, stage_map, norm_stage_map,
                    i, metrics, total, after, stage_id, pages, requests, served,
                    merged, log >>
    /\ UNCHANGED normVars

\* the total taken from the page size asked for, not from the results received
AddPageAssumesFull(t, resp) == t + PageLimit

\* count_tickets_in_stage, line 181
AddPage(t, resp) == t + resp.n

\* count_tickets_in_stage, lines 168-169: the cursor the request carries, or None
CursorSent == IF Truthy(after) THEN after ELSE None

\* count_tickets_in_stage, lines 157-186: one request that is answered; the count
\* returns to fetch_ticket_metrics (line 210) when the answer has no cursor
SearchPage ==
    /\ pc = "search"
    /\ Len(served) < Len(pages)
    /\ LET resp == pages[Len(served) + 1]
           sum == AddPage(total, resp)
       IN  /\ requests' = Append(requests, CursorSent)
           /\ served' = Append(served, resp)
           /\ total' = sum
           /\ after' = resp.after
           /\ IF Truthy(resp.after)
              THEN /\ log' = Append(log, Ev("POST search", stage_id))
                   /\ UNCHANGED << pc, i, metrics >>
              ELSE /\ log' = log \o << Ev("POST search", stage_id),
                                       Ev("count returns", [ label |-> i, result |-> sum ]) >>
                   /\ metrics' = DictSet(metrics, STAGE_LABELS[i], sum)
                   /\ i' = i + 1
                   /\ pc' = "labels"
    /\ UNCHANGED << env, status, pipelines, pipeline_id, stage_map, norm_stage_map,
                    stage_id, pages, ticket_metrics, merged >>
    /\ UNCHANGED normVars

\* count_tickets_in_stage, lines 171-179: hs_post raises, and the count with it
SearchPageFails ==
    /\ pc = "search"
    /\ requests' = Append(requests, CursorSent)
    /\ FetchRaises("HTTPError", << Ev("POST search", stage_id) >>)
    /\ UNCHANGED << env, status, pipelines, pipeline_id, stage_map, norm_stage_map,
                    i, metrics, total, after, stage_id, pages, served, merged >>
    /\ UNCHANGED normVars

\* conversation metrics that read the inbox over the network and report it
ConvMetricsFromInbox ==
    [ k \in DOMAIN CONV_KEYS |-> << CONV_KEYS[k], k >> ]

\* fetch_conversation_metrics, lines 222-227
ConvMetrics ==
    [ k \in DOMAIN CONV_KEYS |-> << CONV_KEYS[k], 0 >> ]

\* the flag is read as a word, not as "1"
DryRunEnabledByWord(e) == Getenv(e.DRY_RUN, "0") = "true"

\* main, line 350
DryRunEnabled(e) == Getenv(e.DRY_RUN, "0") = "1"

\* main, lines 342-347
MergedMetrics == DictUpdate(DictUpdate(<< >>, ticket_metrics), ConvMetrics)

\* main, lines 342-354: the metrics are merged, and printed in a dry run
MergeMetrics ==
    /\ pc = "merge"
    /\ merged' = MergedMetrics
    /\ IF DryRunEnabled(env)
       THEN /\ log' = log \o << Ev("conv metrics", None), Ev("print metrics", MergedMetrics) >>
            /\ status' = "ok"
            /\ pc' = "exit"
       ELSE /\ log' = Append(log, Ev("conv metrics", None))
            /\ pc' = "render"
            /\ UNCHANGED status
    /\ UNCHANGED << env, pipelines, pipeline_id, stage_map, norm_stage_map, i, metrics,
                    total, after, stage_id, pages, requests, served, ticket_metrics >>
    /\ UNCHANGED normVars

\* main, lines 357-367: render_image returns the image
RenderImage ==
    /\ pc = "render"
    /\ log' = Append(log, Ev("render", "ok"))
    /\ pc' = "publish"
    /\ UNCHANGED << env, status, pipelines, pipeline_id, stage_map, norm_stage_map, i,
                    metrics, total, after, stage_id, pages, requests, served,
                    ticket_metrics, merged >>
    /\ UNCHANGED normVars

\* render_image raises (line 232: the template cannot be opened)
RenderImageFails ==
    /\ pc = "render"
    /\ log' = Append(log, Ev("render", "error"))
    /\ status' = "render error"
    /\ pc' = "exit"
    /\ UNCHANGED << env, pipelines, pipeline_id, stage_map, norm_stage_map, i,
                    metrics, total, after, stage_id, pages, requests, served,
                    ticket_metrics, merged >>
    /\ UNCHANGED normVars

UploadOutcomes == { "ok", "SlackApiError", "ConnectionError" }

\* a rejected upload is swallowed
PublishStatusSwallows(outcome) == "ok"

\* post_to_slack, lines 289-299, seen from main: how the run ends
PublishStatus(outcome) ==
    CASE outcome = "ok" -> "ok"
      [] outcome = "SlackApiError" -> "RuntimeError"
      [] OTHER -> outcome

\* main, lines 370-371, with post_to_slack
PostToSlack ==
    /\ pc = "publish"
    /\ \E outcome \in UploadOutcomes :
        /\ status' = PublishStatus(outcome)
        /\ log' = log \o << Ev("upload", outcome) >>
                      \o ( IF PublishStatus(outcome) = "ok"
                           THEN << Ev("print ok", None) >>
                           ELSE << >> )
    /\ pc' = "exit"
    /\ UNCHANGED << env, pipelines, pipeline_id, stage_map, norm_stage_map, i,
                    metrics, total, after, stage_id, pages, requests, served,
                    ticket_metrics, merged >>
    /\ UNCHANGED normVars

Next ==
    \/ Preflight
    \/ GetPipelines
    \/ GetPipelinesFails
    \/ LabelUnmatched
    \/ LabelMatched
    \/ FetchReturns
    \/ SearchPage
    \/ SearchPageFails
    \/ MergeMetrics
    \/ RenderImage
    \/ RenderImageFails
    \/ PostToSlack

Spec == Init /\ [][Next]_vars

(***************************************************************************)
(* The stage counter on its own: main has resolved the full pipeline and   *)
(* fetch_ticket_metrics has just entered count_tickets_in_stage for the    *)
(* first label; the CRM answers with any sequence of search responses that *)
(* ends with one that carries no cursor.                                   *)
(***************************************************************************)
PageSizes == { 0, 37, PageLimit }

MidPages == [ n : PageSizes, after : { "c1", "c2", None, "" } ]

LastPages == [ n : PageSizes, after : { None, "" } ]

Scripts ==
    { Append(front, last) :
        front \in SeqsUpTo(MidPages, MaxPages - 1), last \in LastPages }

HarnessEnv ==
    [ SLACK_BOT_TOKEN |-> EnvSet("secret"),
      SLACK_CHANNEL_ID |-> EnvSet("secret"),
      HUBSPOT_TOKEN |-> EnvSet("secret"),
      HUBSPOT_PIPELINE_NAME |-> EnvUnset(<< >>),
      HUBSPOT_PIPELINE_ID |-> EnvUnset(""),
      DRY_RUN |-> EnvUnset("") ]

InitCount ==
    /\ env = HarnessEnv
    /\ pc = "search"
    /\ status = "running"
    /\ pipelines = << FullPipeline >>
    /\ pipeline_id = FullPipeline.id
    /\ stage_map = StageMapOf(FullPipeline)
    /\ norm_stage_map = NormStageMapOf(StageMapOf(FullPipeline))
    /\ i = 1
    /\ metrics = << >>
    /\ total = 0
    /\ after = None
    /\ stage_id = "S1"
    /\ pages \in Scripts
    /\ requests = << >>
    /\ served = << >>
    /\ ticket_metrics = << >>
    /\ merged = << >>
    /\ log = << Ev("GET pipelines", "ok"), Ev("count", [ label |-> 1, stage |-> "S1" ]) >>
    /\ NormIdle

NextCount == SearchPage \/ SearchPageFails

SpecCount == InitCount /\ [][NextCount]_vars

(***************************************************************************)
(* The normalizer on its own: normalize_label applied to a label and to a  *)
(* cosmetic variant of it, then applied again to its own result.           *)
(***************************************************************************)
NormAlphabet == { "S", "s", " ", "-", "EN_DASH", "EM_DASH", "CAMERA", "I_DOT", "TIMES" }

ExPlain   == << "s", "o", "l", "i", "c", "i", "t", "a", " ", "i", "m", "a", "g", "e", "m" >>
ExEmoji   == << "S", "o", "l", "i", "c", "i", "t", "a", " ", "I", "m", "a", "g", "e", "m", " ", "CAMERA" >>
ExSpaces  == << "s", "o", "l", "i", "c", "i", "t", "a", " ", " ", " ", "i", "m", "a", "g", "e", "m" >>
ExEnDash  == << "S", "o", "l", "i", "c", "i", "t", "a", "EN_DASH", "I", "m", "a", "g", "e", "m" >>
ExHyphen  == << "s", "o", "l", "i", "c", "i", "t", "a", "-", "i", "m", "a", "g", "e", "m" >>

NormInputs == SeqsUpTo(NormAlphabet, MaxNormLen) \cup { ExPlain }

Dashes == { "-", "EN_DASH", "EM_DASH" }

\* a letter whose other case is one letter, and that letter
SimpleCased(c) == c \in Range(UPPER) \/ c \in Range(LOWER)

SwapCase(c) ==
    IF c \in Range(UPPER) THEN LOWER[CHOOSE k \in DOMAIN UPPER : UPPER[k] = c]
    ELSE UPPER[CHOOSE k \in DOMAIN LOWER : LOWER[k] = c]

Trailers == { << "CAMERA" >>, << " ", "CAMERA" >>, << "CAMERA", " " >>, << "!" >> }

\* position k separates two letters
Interior(s, k) ==
    /\ 1 < k
    /\ k < Len(s)
    /\ SimpleCased(s[k - 1])
    /\ SimpleCased(s[k + 1])

\* the cosmetic differences between a label and its variant
Edits(s) ==
    { [ kind |-> "case", pos |-> k, ch |-> SwapCase(s[k]) ] :
        k \in { j \in DOMAIN s : SimpleCased(s[j]) } }
    \cup { [ kind |-> "dash", pos |-> k, ch |-> d ] :
        k \in { j \in DOMAIN s : s[j] \in Dashes }, d \in Dashes }
    \cup { [ kind |-> "trail", pos |-> Len(s), ch |-> t ] : t \in Trailers }
    \cup { [ kind |-> "spaces", pos |-> k, ch |-> " " ] :
        k \in { j \in DOMAIN s : Interior(s, j) /\ s[j] = " " } }
    \cup { [ kind |-> "dash2space", pos |-> k, ch |-> " " ] :
        k \in { j \in DOMAIN s : Interior(s, j) /\ s[j] \in Dashes } }
    \cup ( IF s = ExPlain
           THEN { [ kind |-> "example", pos |-> 0, ch |-> e ] :
                    e \in { ExEmoji, ExSpaces, ExEnDash } }
           ELSE { } )

ApplyEdit(s, e) ==
    CASE e.kind \in { "case", "dash", "dash2space" } ->
            [ k \in DOMAIN s |-> IF k = e.pos THEN e.ch ELSE s[k] ]
      [] e.kind = "trail" -> s \o e.ch
      [] e.kind = "spaces" ->
            SubSeq(s, 1, e.pos) \o << " " >> \o SubSeq(s, e.pos + 1, Len(s))
      [] e.kind = "example" -> e.ch

MainIdle ==
    /\ env = HarnessEnv
    /\ pc = "idle"
    /\ status = "running"
    /\ pipelines = << >>
    /\ pipeline_id = None
    /\ stage_map = << >>
    /\ norm_stage_map = << >>
    /\ i = 0
    /\ metrics = << >>
    /\ total = 0
    /\ after = None
    /\ stage_id = None
    /\ pages = << >>
    /\ requests = << >>
    /\ served = << >>
    /\ ticket_metrics = << >>
    /\ merged = << >>
    /\ log = << >>

InitNorm ==
    /\ MainIdle
    /\ npc = "input"
    /\ txt \in NormInputs
    /\ edit \in Edits(txt)
    /\ variant = ApplyEdit(txt, edit)
    /\ out = << >>
    /\ out_variant = << >>
    /\ out_twice = << >>

\* normalize_label(txt) and normalize_label(variant)
Normalize ==
    /\ npc = "input"
    /\ out' = normalize_label(txt)
    /\ out_variant' = normalize_label(variant)
    /\ npc' = "once"
    /\ UNCHANGED << txt, variant, edit, out_twice >>
    /\ UNCHANGED mainVars

\* normalize_label(normalize_label(txt))
NormalizeAgain ==
    /\ npc = "once"
    /\ out_twice' = normalize_label(out)
    /\ npc' = "twice"
    /\ UNCHANGED << txt, variant, edit, out, out_variant >>
    /\ UNCHANGED mainVars

NextNorm == Normalize \/ NormalizeAgain

SpecNorm == InitNorm /\ [][NextNorm]_vars

(***************************************************************************)
(* Claims.                                                                 *)
(***************************************************************************)
CountOps(op) == Cardinality({ k \in DOMAIN log : log[k].op = op })

HasOp(op) == \E k \in DOMAIN log : log[k].op = op

RECURSIVE SumOfSizes(_)
SumOfSizes(ps) == IF ps = << >> THEN 0 ELSE Head(ps).n + SumOfSizes(Tail(ps))

\* the first response of the script that carries no cursor
FirstWithoutCursor == Min({ k \in DOMAIN pages : pages[k].after \in { None, "" } })

CountReturned == pc = "labels" /\ i = 2

EventsOf(op) == { k \in DOMAIN log : log[k].op = op }

FetchFailed == HasOp("fetch raised")

DryRunSet == env.DRY_RUN = EnvSet("1")

NetworkCalls == Cardinality({ k \in DOMAIN log : log[k].op \in NetworkOps })

RenderReturned == \E k \in EventsOf("render") : log[k].arg = "ok"

AllTicketMetricsZero(m) ==
    /\ DictKeys(m) \cap Range(STAGE_LABELS) = Range(STAGE_LABELS)
    /\ \A k \in DOMAIN STAGE_LABELS : DictGet(m, STAGE_LABELS[k]) = 0

(***************************************************************************)
(* C1: once an exception has been raised while the ticket metrics were     *)
(* computed (by the pipelines request, by the resolver, or by any page     *)
(* request of any stage), every configured ticket metric is 0 in           *)
(* ticket_metrics and in the merged map, the run goes on to the merge and, *)
(* unless dry-run is set, to rendering, and it ends only after the upload  *)
(* has been attempted when rendering returned an image.                    *)
(***************************************************************************)
C1_DegradedToZero ==
    FetchFailed =>
        /\ pc \in { "merge", "render", "publish", "exit" }
        /\ AllTicketMetricsZero(ticket_metrics)
        /\ Len(ticket_metrics) = Len(STAGE_LABELS)
        /\ pc # "merge" => AllTicketMetricsZero(merged)
        /\ status # "SystemExit"
        /\ pc = "publish" => RenderReturned
        /\ pc = "exit" /\ ~DryRunSet =>
              /\ HasOp("render")
              /\ RenderReturned => CountOps("upload") = 1
              /\ ~RenderReturned => status = "render error"

C1_Witness ==
    /\ FetchFailed
    /\ \E k \in EventsOf("count returns") : log[k].arg.result > 0
    /\ Len(requests) = 2
    /\ AllTicketMetricsZero(merged)
    /\ HasOp("upload")

(***************************************************************************)
(* C2: with DRY_RUN set to "1" nothing is rendered and nothing is          *)
(* uploaded, and a run that passed the pre-flight checks ends normally     *)
(* with the merged metrics printed, whether the ticket metrics were        *)
(* fetched or degraded to zero.                                            *)
(***************************************************************************)
C2_DryRunPublishesNothing ==
    DryRunSet =>
        /\ ~HasOp("upload")
        /\ ~HasOp("render")
        /\ pc \notin { "render", "publish" }
        /\ pc = "exit" /\ status # "SystemExit" =>
              /\ status = "ok"
              /\ log[Len(log)].op = "print metrics"
              /\ log[Len(log)].arg = merged
              /\ Len(merged) = Len(STAGE_LABELS) + Len(CONV_KEYS)
              /\ \A k \in DOMAIN ticket_metrics :
                    DictGet(merged, ticket_metrics[k][1]) = ticket_metrics[k][2]

C2_Witness ==
    /\ DryRunSet
    /\ pc = "exit"
    /\ status = "ok"
    /\ ~FetchFailed
    /\ \E k \in DOMAIN merged : merged[k][2] > 0
    /\ log[Len(log)].op = "print metrics"

ConfigurationMissing ==
    \/ ~Truthy(Getenv(env.SLACK_BOT_TOKEN, ""))
    \/ ~Truthy(Getenv(env.SLACK_CHANNEL_ID, ""))
    \/ ~Truthy(Getenv(env.HUBSPOT_TOKEN, ""))
    \/ ~Truthy(PipelineIdEnv) /\ ~TruthyText(PipelineNameEnv)

(***************************************************************************)
(* C3 as stated: when a token, the channel, or both pipeline hints are     *)
(* missing, no network call is ever made, the run is never degraded to a   *)
(* zero-valued report, and it ends failed.                                 *)
(***************************************************************************)
C3_MissingConfigurationIsFatal ==
    ConfigurationMissing =>
        /\ NetworkCalls = 0
        /\ ~HasOp("print failure")
        /\ pc = "exit" => status = "SystemExit"

PipelinesFetched == \E k \in EventsOf("GET pipelines") : log[k].arg = "ok"

Resolved == pipeline_id # None

C5_Pagination ==
    /\ served = SubSeq(pages, 1, Len(served))
    /\ Len(served) <= FirstWithoutCursor
    /\ \A k \in DOMAIN requests :
          requests[k] = IF k = 1 THEN None ELSE pages[k - 1].after
    /\ pc = "search" =>
          /\ Len(requests) = Len(served)
          /\ Len(served) < FirstWithoutCursor
          /\ total = SumOfSizes(served)
    /\ CountReturned =>
          /\ Len(requests) = FirstWithoutCursor
          /\ Len(served) = FirstWithoutCursor
          /\ CountOps("POST search") = FirstWithoutCursor
          /\ metrics = << << STAGE_LABELS[1],
                             SumOfSizes(SubSeq(pages, 1, FirstWithoutCursor)) >> >>
          /\ [ k \in DOMAIN pages |-> pages[k].n ] = << 100, 100, 37 >>
                /\ FirstWithoutCursor = 3
                => metrics[1][2] = 237
          /\ [ k \in DOMAIN pages |-> pages[k].n ] = << 0 >> => metrics[1][2] = 0

C5_Witness ==
    /\ CountReturned
    /\ Len(served) = 3
    /\ requests = << None, "c1", "c2" >>
    /\ metrics[1][2] = 237

(***************************************************************************)
(* C9 as stated: a label and a variant of it that differs only in case,    *)
(* in a trailing emoji, in the number of interior spaces or in a dash      *)
(* standing for a space have equal normalized forms; the three example     *)
(* labels normalize to what "solicita imagem" normalizes to.               *)
(***************************************************************************)
C9_AsStated ==
    npc # "input" => out_variant = out

(***************************************************************************)
(* C9 as amended: the variant has the same normalized form when it differs *)
(* in the case of a letter, in the dash character used (hyphen, en dash,   *)
(* em dash) or in a trailing emoji or punctuation mark that the pattern    *)
(* strips, with or without spaces around it; the                           *)
(* emoji example normalizes to "solicita imagem", the three-space example  *)
(* keeps its three spaces and the en-dash example becomes                  *)
(* "solicita-imagem".                                                      *)
(***************************************************************************)
C9_Amended ==
    npc # "input" =>
        /\ edit.kind \in { "case", "dash", "trail" } => out_variant = out
        /\ txt = ExPlain => out = ExPlain
        /\ variant = ExEmoji => out_variant = ExPlain
        /\ variant = ExSpaces => out_variant = ExSpaces
        /\ variant = ExEnDash => out_variant = ExHyphen

C9_Witness ==
    /\ npc = "once"
    /\ variant = ExEmoji
    /\ out_variant = ExPlain

(***************************************************************************)
(* C10 as stated: normalize_label is idempotent,                           *)
(* normalize_label(normalize_label(x)) = normalize_label(x) for every x.   *)
(***************************************************************************)
C10_Idempotent ==
    npc = "twice" => out_twice = out

(***************************************************************************)
(* C6 as stated: for every label fetch_ticket_metrics has processed, if a  *)
(* resolved stage's raw label has the normalized form of the label, the    *)
(* counter was invoked for such a stage's identifier, whatever its value,  *)
(* and the metric is what it returned; otherwise the metric is 0, a        *)
(* warning was emitted and the counter was not invoked for the label.  The *)
(* resolver is called once.                                                *)
(***************************************************************************)
C6_MatchedLabelIsCounted ==
    /\ CountOps("GET pipelines") <= 1
    /\ \A k \in DOMAIN STAGE_LABELS :
          Resolved /\ DictHas(metrics, STAGE_LABELS[k]) =>
              LET same == { j \in DOMAIN stage_map :
                              normalize_label(stage_map[j][1])
                                  = normalize_label(STAGE_LABELS[k]) }
              IN  IF same # { }
                  THEN \E j \in same :
                          /\ \E e \in EventsOf("count") :
                                /\ log[e].arg.label = k
                                /\ log[e].arg.stage = stage_map[j][2]
                          /\ \E e \in EventsOf("count returns") :
                                /\ log[e].arg.label = k
                                /\ log[e].arg.result = DictGet(metrics, STAGE_LABELS[k])
                  ELSE /\ DictGet(metrics, STAGE_LABELS[k]) = 0
                       /\ \E e \in EventsOf("warn") : log[e].arg = k
                       /\ \A e \in EventsOf("count") : log[e].arg.label # k

C7_Keys ==
    HasOp("conv metrics") =>
        /\ DictKeys(merged) = Range(STAGE_LABELS) \cup Range(CONV_KEYS)
        /\ Len(STAGE_LABELS) = 15
        /\ Len(merged) = 19
        /\ \A k \in DOMAIN merged : merged[k][2] \in Nat
        /\ \A k \in DOMAIN CONV_KEYS : DictGet(merged, CONV_KEYS[k]) = 0

(***************************************************************************)
(* C7: once the metrics are merged, after a successful or a degraded       *)
(* fetch, the keys of the merged map are the 15 configured labels and the  *)
(* four conversation keys, 19 entries, every value is a natural number and *)
(* the four conversation metrics are 0; the merge step, which computes the *)
(* conversation metrics, makes no network call.                            *)
(***************************************************************************)
C7_MergedMap ==
    [][ /\ C7_Keys'
        /\ pc = "merge" => NetworkCalls' = NetworkCalls ]_vars

C7_Witness ==
    /\ HasOp("conv metrics")
    /\ ~FetchFailed
    /\ Len(merged) = 19
    /\ \E k \in DOMAIN merged : merged[k][2] > 0
    /\ \E k \in EventsOf("warn") : TRUE

(***************************************************************************)
(* C8: an upload is made only in a run without dry-run, once, after the    *)
(* metrics were fetched and the image rendered, and it is the last thing   *)
(* the run does but for printing the success result; a run whose rendering *)
(* returned ends with exactly one upload; when the upload is rejected the  *)
(* run ends with the failure (a RuntimeError for a SlackApiError) and      *)
(* prints no success result.                                               *)
(***************************************************************************)
C8_PublishOnceAndPropagate ==
    /\ pc = "exit" /\ RenderReturned => CountOps("upload") = 1
    /\ pc # "exit" => ~HasOp("upload")
    /\ \A u \in EventsOf("upload") :
          /\ CountOps("upload") = 1
          /\ ~DryRunSet
          /\ HasOp("conv metrics")
          /\ \E k \in 1 .. (u - 1) : log[k].op = "render" /\ log[k].arg = "ok"
          /\ \A k \in (u + 1) .. Len(log) : log[k].op = "print ok"
          /\ log[u].arg = "ok" => status = "ok" /\ HasOp("print ok")
          /\ log[u].arg # "ok" => status \notin { "ok", "running" } /\ ~HasOp("print ok")
          /\ log[u].arg = "SlackApiError" => status = "RuntimeError"

C8_Witness ==
    /\ pc = "exit"
    /\ \E u \in EventsOf("upload") : log[u].arg = "SlackApiError"
    /\ status = "RuntimeError"
    /\ CountOps("POST search") > 0

=============================================================================
